---- MODULE Spec2Model ----
(***************************************************************************)
(* Model of neon_script/neon_sensors_pep2026.py: the Citation Writer       *)
(* (write_citation), the Daily Summarizer (neon_dwnld_sum_daily) with its  *)
(* water-quality and discharge pipelines, and the Site Driver (main).      *)
(*                                                                         *)
(* Strings the code inspects (timeutc, bundle keys) are sequences of       *)
(* one-character strings.  Clock quantities are kept in seconds, i.e. the  *)
(* code's minute quantities multiplied by 60, so that dt.second / 60.0 is  *)
(* exact: 7.5 min = 450 s, 12*60 min = 43200 s, 24*60 min = 86400 s.       *)
(***************************************************************************)
EXTENDS Integers, Sequences, FiniteSets, TLC

VARIABLES
    timeutc,            \* the HH:MM argument, a character sequence
    target_hour,        \* line 58
    target_minute,      \* line 58
    dt,                 \* SpecWindow: the timestamp handed to is_within_window
    within,             \* SpecWindow: the value is_within_window returned
    waq_instantaneous,  \* SpecWaq: data["waq_instantaneous"]
    waq_filtered,       \* SpecWaq: the kept readings with their 'date' column
    daily_averages,     \* SpecWaq: the table written to <site>_daily_20288.csv
    csd_15_min,         \* SpecCsd: data["csd_15_min"]
    csd_filtered,       \* SpecCsd: the table written to <site>_daily_00130.csv
    data,               \* the bundle returned by nu.load_by_product
    dpnum,              \* SpecCite: the product code given to write_citation
    siteid,             \* the site being processed
    files,              \* the filesystem under savepath: name -> content
    log,                \* the lines printed so far
    requests,           \* every nu.load_by_product call so far and its outcome
    exc,                \* the exception being handled (e), "" when none
    calls,              \* SpecMain: the sites passed to neon_dwnld_sum_daily
    idx,                \* SpecMain: position of the for loop in site_inputs
    pc                  \* the control position

vars == << timeutc, target_hour, target_minute, dt, within, waq_instantaneous,
           waq_filtered, daily_averages, csd_15_min, csd_filtered, data, dpnum, siteid,
           files, log, requests, exc, calls, idx, pc >>

timeVars == << timeutc, target_hour, target_minute >>
windowVars == << dt, within >>
waqVars == << waq_instantaneous, waq_filtered, daily_averages >>
csdVars == << csd_15_min, csd_filtered >>
runVars == << data, dpnum, siteid, files, log, requests, exc >>
mainVars == << calls, idx >>

\* The value of a variable a specification does not use.
Unused == "unused"

WindowUnused == dt = Unused /\ within = Unused

WaqUnused ==
    waq_instantaneous = Unused /\ waq_filtered = Unused /\ daily_averages = Unused

CsdUnused == csd_15_min = Unused /\ csd_filtered = Unused

RunUnused ==
    /\ data = Unused
    /\ dpnum = Unused
    /\ siteid = Unused
    /\ files = Unused
    /\ log = Unused
    /\ requests = Unused
    /\ exc = Unused

MainUnused == calls = Unused /\ idx = Unused

-----------------------------------------------------------------------------
(* Character strings *)

Digits == {"0", "1", "2", "3", "4", "5", "6", "7", "8", "9"}

DigitVal(c) ==
    CASE c = "0" -> 0 [] c = "1" -> 1 [] c = "2" -> 2 [] c = "3" -> 3
      [] c = "4" -> 4 [] c = "5" -> 5 [] c = "6" -> 6 [] c = "7" -> 7
      [] c = "8" -> 8 [] c = "9" -> 9

\* str.split(sep): the fields between the occurrences of sep (never empty).
RECURSIVE split(_, _)
split(s, sep) ==
    IF \A k \in 1..Len(s) : s[k] # sep
    THEN << s >>
    ELSE LET k == CHOOSE j \in 1..Len(s) :
                      s[j] = sep /\ \A h \in 1..(j - 1) : s[h] # sep
         IN  << SubSeq(s, 1, k - 1) >> \o split(SubSeq(s, k + 1, Len(s)), sep)

\* int(field) accepts a non-empty run of decimal digits (signs, blanks and
\* underscores, which int() also accepts, are not in the modelled inputs).
IsInt(f) == Len(f) > 0 /\ \A k \in 1..Len(f) : f[k] \in Digits

RECURSIVE int(_)
int(f) == IF Len(f) = 0 THEN 0
          ELSE 10 * int(SubSeq(f, 1, Len(f) - 1)) + DigitVal(f[Len(f)])

\* Line 58: target_hour, target_minute = map(int, timeutc.split(':')).
\* The unpacking raises ValueError unless there are exactly two fields and
\* int() raises ValueError on a field that is no integer.
ParseRaises(t) ==
    LET fs == split(t, ":")
    IN  Len(fs) # 2 \/ \E k \in 1..Len(fs) : ~IsInt(fs[k])

ParseHour(t) == int(split(t, ":")[1])

ParseMinute(t) == int(split(t, ":")[2])

\* Lines 117-120: parsing "<day> " + timeutc with format '%Y-%m-%d %H:%M'.
\* %H takes one or two digits up to 23, %M one or two digits up to 59, and
\* nothing may follow; anything else raises ValueError.
StrptimeRaises(t) ==
    LET fs == split(t, ":")
    IN  \/ Len(fs) # 2
        \/ \E k \in 1..Len(fs) : ~IsInt(fs[k]) \/ Len(fs[k]) > 2
        \/ int(fs[1]) > 23
        \/ int(fs[2]) > 59

\* The timestamp the format yields: the reading's calendar day at the clock
\* time written in timeutc.
Strptime(day, t) ==
    [day |-> day, hour |-> int(split(t, ":")[1]), minute |-> int(split(t, ":")[2]),
     second |-> 0]

-----------------------------------------------------------------------------
(* Lines 97-107: is_within_window *)

is_within_window_wide(x, target_h, target_m) ==
    LET dt_minutes == x.hour * 3600 + x.minute * 60 + x.second
        target_minutes == (target_h * 60 + target_m) * 60
        raw == IF dt_minutes >= target_minutes THEN dt_minutes - target_minutes
               ELSE target_minutes - dt_minutes
        diff == IF raw > 12 * 60 * 60 THEN 24 * 60 * 60 - raw ELSE raw
    IN  diff <= 900

is_within_window_nowrap(x, target_h, target_m) ==
    LET dt_minutes == x.hour * 3600 + x.minute * 60 + x.second
        target_minutes == (target_h * 60 + target_m) * 60
        raw == IF dt_minutes >= target_minutes THEN dt_minutes - target_minutes
               ELSE target_minutes - dt_minutes
    IN  raw <= 450

is_within_window(x, target_h, target_m) ==
    LET dt_minutes == x.hour * 3600 + x.minute * 60 + x.second
        target_minutes == (target_h * 60 + target_m) * 60
        raw == IF dt_minutes >= target_minutes THEN dt_minutes - target_minutes
               ELSE target_minutes - dt_minutes
        diff == IF raw > 12 * 60 * 60 THEN 24 * 60 * 60 - raw ELSE raw
    IN  diff <= 450

-----------------------------------------------------------------------------
(* Lines 84-134: the water-quality table.  A row holds endDateTime (day,    *)
(* hour, minute, second), the metadata column horizontalPosition and one    *)
(* numeric column, dissolvedOxygen; every cell holds a value.               *)

\* Line 87.
s2locs == {"102", "110", "112", "132"}

\* Line 88: waq_instantaneous['horizontalPosition'].isin(s2locs).
subset_s2(t) == SelectSeq(t, LAMBDA r : r.horizontalPosition \in s2locs)

\* Lines 110-114: the rows whose endDateTime passes is_within_window.
window_filter(t, target_h, target_m) ==
    SelectSeq(t, LAMBDA r : is_within_window(r.endDateTime, target_h, target_m))

\* Lines 117-120: the 'date' column, strftime('%Y-%m-%d') of the row's own
\* endDateTime followed by timeutc.
add_date(t, tutc) ==
    [k \in 1..Len(t) |->
        [endDateTime |-> t[k].endDateTime,
         horizontalPosition |-> t[k].horizontalPosition,
         dissolvedOxygen |-> t[k].dissolvedOxygen,
         date |-> Strptime(t[k].endDateTime.day, tutc)]]

\* Lines 88-120 in sequence.
waq_filter(t, tutc, target_h, target_m) ==
    add_date(window_filter(subset_s2(t), target_h, target_m), tutc)

\* The order of timestamps.
DateLess(a, b) ==
    \/ a.day < b.day
    \/ a.day = b.day /\ a.hour < b.hour
    \/ a.day = b.day /\ a.hour = b.hour /\ a.minute < b.minute
    \/ a.day = b.day /\ a.hour = b.hour /\ a.minute = b.minute /\ a.second < b.second

\* groupby('date') yields its groups in increasing key order.
RECURSIVE sort_keys(_)
sort_keys(S) ==
    IF S = {} THEN << >>
    ELSE LET m == CHOOSE x \in S : \A y \in S : ~DateLess(y, x)
         IN  << m >> \o sort_keys(S \ {m})

group_rows(t, key) == SelectSeq(t, LAMBDA r : r.date = key)

RECURSIVE column_sum(_)
column_sum(g) ==
    IF g = << >> THEN 0
    ELSE g[1].dissolvedOxygen + column_sum(Tail(g))

\* 'mean' of the numeric column: the quotient num / den, kept exact.
agg_mean(g) == [num |-> column_sum(g), den |-> Len(g)]

agg_last(g) == g[Len(g)].horizontalPosition

\* 'first' of a metadata column.
agg_first(g) == g[1].horizontalPosition

\* Lines 123-134: one row per 'date' group, metadata by 'first', numeric
\* columns by 'mean'.
groupby_agg(t) ==
    LET keys == sort_keys({t[k].date : k \in 1..Len(t)})
    IN  [k \in 1..Len(keys) |->
            LET g == group_rows(t, keys[k])
            IN  [date |-> keys[k],
                 horizontalPosition |-> agg_first(g),
                 dissolvedOxygen |-> agg_mean(g)]]

-----------------------------------------------------------------------------
(* Lines 167-177: the discharge table.  A row holds endDateTime and one     *)
(* numeric column, maxpostDischarge.                                        *)

csd_filter_hour(t, target_h, target_m) ==
    SelectSeq(t, LAMBDA r : r.endDateTime.hour = target_h)

\* Lines 174-177: the rows whose hour and minute equal the target's.
csd_filter(t, target_h, target_m) ==
    SelectSeq(t, LAMBDA r : /\ r.endDateTime.hour = target_h
                            /\ r.endDateTime.minute = target_m)

-----------------------------------------------------------------------------
(* Lines 8-29: write_citation.  A bundle is the sequence of its entries     *)
(* [key, value] in dict order; a file name is the character sequence        *)
(* savepath + siteid + "_citation_" + dpnum + ".txt".                       *)

UpperCase ==
    << "A", "B", "C", "D", "E", "F", "G", "H", "I", "J", "K", "L", "M",
       "N", "O", "P", "Q", "R", "S", "T", "U", "V", "W", "X", "Y", "Z" >>

LowerCase ==
    << "a", "b", "c", "d", "e", "f", "g", "h", "i", "j", "k", "l", "m",
       "n", "o", "p", "q", "r", "s", "t", "u", "v", "w", "x", "y", "z" >>

\* str.lower() on one character and on a string.
lower_char(c) ==
    IF \E k \in 1..26 : UpperCase[k] = c
    THEN LowerCase[CHOOSE k \in 1..26 : UpperCase[k] = c]
    ELSE c

lower(str) == [k \in 1..Len(str) |-> lower_char(str[k])]

\* sub in str.
contains(str, sub) ==
    \E k \in 0..(Len(str) - Len(sub)) : SubSeq(str, k + 1, k + Len(sub)) = sub

citation_ ==
    << "c", "i", "t", "a", "t", "i", "o", "n", "_" >>

dot_txt ==
    << ".", "t", "x", "t" >>

underscore_citation_ ==
    << "_", "c", "i", "t", "a", "t", "i", "o", "n", "_" >>

\* Line 206: the output directory (the text after the last but one "/").
savepath ==
    << "d", "a", "t", "a", "/" >>

underscore_daily_ ==
    << "_", "d", "a", "i", "l", "y", "_" >>

dot_csv ==
    << ".", "c", "s", "v" >>

\* Lines 137, 180: the name of the daily CSV file.
daily_path(dir, site, product) ==
    dir \o site \o underscore_daily_ \o product \o dot_csv

citation_path_nosite(dir, site, product) ==
    dir \o underscore_citation_ \o product \o dot_txt

\* Line 28: the name of the citation file.
citation_path(dir, site, product) ==
    dir \o site \o underscore_citation_ \o product \o dot_txt

citations_case_sensitive(product, bundle) ==
    LET hit == SelectSeq(bundle, LAMBDA entry : contains(entry.key, citation_ \o product))
    IN  [k \in 1..Len(hit) |-> hit[k].value]

\* Line 27: the values whose lower-cased key contains 'citation_' + dpnum.
citations(product, bundle) ==
    LET hit == SelectSeq(bundle, LAMBDA entry : contains(lower(entry.key), citation_ \o product))
    IN  [k \in 1..Len(hit) |-> hit[k].value]

\* A filesystem is a function from the names of its files to their contents;
\* open(name, "w") creates the file or truncates it.  A content is complete
\* when the write that produced it returned.
write_file(fs, name, content) ==
    [n \in DOMAIN fs \cup {name} |->
        IF n = name THEN [complete |-> TRUE, body |-> content] ELSE fs[n]]

\* A write that raises after open(name, "w") leaves the file truncated.
truncate_file(fs, name) ==
    [n \in DOMAIN fs \cup {name} |->
        IF n = name THEN [complete |-> FALSE, body |-> << >>] ELSE fs[n]]

\* Lines 27-29: the file holds the printed list of the selected values.
write_citation(fs, product, site, bundle, dir) ==
    write_file(fs, citation_path(dir, site, product), citations(product, bundle))

-----------------------------------------------------------------------------
(* Inputs of the pure-function specifications *)

DigitChar(n) ==
    CASE n = 0 -> "0" [] n = 1 -> "1" [] n = 2 -> "2" [] n = 3 -> "3"
      [] n = 4 -> "4" [] n = 5 -> "5" [] n = 6 -> "6" [] n = 7 -> "7"
      [] n = 8 -> "8" [] n = 9 -> "9"

\* The text "HH:MM" of a clock time.
HHMM(h, m) ==
    << DigitChar(h \div 10), DigitChar(h % 10), ":",
       DigitChar(m \div 10), DigitChar(m % 10) >>

\* Target times around midnight, around noon and in the afternoon.
TargetTimes ==
    { HHMM(0, 0), HHMM(0, 2), HHMM(0, 7), HHMM(0, 8), HHMM(11, 59), HHMM(12, 0),
      HHMM(16, 0), HHMM(19, 0), HHMM(23, 52), HHMM(23, 59) }

SecondSamples == {0, 1, 29, 30, 31, 59}

ClockTimes ==
    [hour : 0..23, minute : 0..59, second : SecondSamples]

-----------------------------------------------------------------------------
(* SpecWindow: is_within_window applied to any clock time, lines 58, 97-114 *)

InitWindow ==
    /\ timeutc \in TargetTimes
    /\ target_hour = ParseHour(timeutc)
    /\ target_minute = ParseMinute(timeutc)
    /\ WindowUnused
    /\ WaqUnused
    /\ CsdUnused
    /\ RunUnused
    /\ MainUnused
    /\ pc = "window"

\* Lines 111-113: the lambda applies is_within_window to one endDateTime.
ApplyWindow ==
    /\ pc = "window"
    /\ \E x \in ClockTimes :
          /\ dt' = x
          /\ within' = is_within_window(x, target_hour, target_minute)
    /\ pc' = "applied"
    /\ UNCHANGED << timeVars, waqVars, csdVars, runVars, mainVars >>

NextWindow == ApplyWindow

SpecWindow == InitWindow /\ [][NextWindow]_vars

\* The circular distance, in seconds, between two clock times of a day.
SecondsOfDay(x) == x.hour * 3600 + x.minute * 60 + x.second

Abs(n) == IF n < 0 THEN -n ELSE n

Min(a, b) == IF a <= b THEN a ELSE b

CircularDistance(x, h, m) ==
    LET d == Abs(SecondsOfDay(x) - (h * 3600 + m * 60))
    IN  Min(d, 86400 - d)

\* C1: a reading is kept if and only if the circular distance between its
\* clock time (hours, minutes, seconds) and the target clock time,
\* min(d, 1440 - d) minutes, is at most 7.5 minutes; a reading exactly 7.5
\* minutes away and a reading at the target time are kept, and the distance
\* wraps across midnight.
C1_WindowIffCircular ==
    pc = "applied" =>
        /\ within <=> (2 * CircularDistance(dt, target_hour, target_minute) <= 15 * 60)
        /\ CircularDistance(dt, target_hour, target_minute) = 450 => within
        /\ CircularDistance(dt, target_hour, target_minute) = 0 => within

\* Target 00:02, reading 23:59:00: kept across midnight.
C1_Witness ==
    /\ pc = "applied"
    /\ timeutc = HHMM(0, 2)
    /\ dt = [hour |-> 23, minute |-> 59, second |-> 0]
    /\ within = TRUE

-----------------------------------------------------------------------------
(* SpecWaq: the water-quality pipeline on any small table, lines 58, 84-134 *)

MaxRows == 3

MaxDay == 2

WaqTargets == { HHMM(16, 0), HHMM(0, 2) }

\* Clock times on both sides of the window's edge for 16:00 and on both
\* sides of midnight for 00:02.
WaqClocks(tutc) ==
    IF tutc = HHMM(16, 0)
    THEN { [hour |-> 16, minute |-> 7, second |-> 30],
           [hour |-> 16, minute |-> 8, second |-> 0] }
    ELSE { [hour |-> 23, minute |-> 59, second |-> 0],
           [hour |-> 0, minute |-> 3, second |-> 0] }

Positions == {"102", "110", "999"}

Oxygen == {1, 4}

RowsAt(tutc, h, values) ==
    { [endDateTime |-> [day |-> d, hour |-> c.hour, minute |-> c.minute,
                        second |-> c.second],
       horizontalPosition |-> h,
       dissolvedOxygen |-> v] :
      d \in 1..MaxDay, c \in WaqClocks(tutc), v \in values }

\* Rows at an S2 position take any value; rows elsewhere take one value.
WaqRows(tutc) ==
    UNION { RowsAt(tutc, h, IF h \in s2locs THEN Oxygen ELSE {1}) : h \in Positions }

InitWaq ==
    /\ timeutc \in WaqTargets
    /\ target_hour = ParseHour(timeutc)
    /\ target_minute = ParseMinute(timeutc)
    /\ \E n \in 0..MaxRows : waq_instantaneous \in [1..n -> WaqRows(timeutc)]
    /\ waq_filtered = << >>
    /\ daily_averages = << >>
    /\ WindowUnused
    /\ CsdUnused
    /\ RunUnused
    /\ MainUnused
    /\ pc = "waq"

\* Lines 84-134 on the table of the bundle.
SummarizeWaq ==
    /\ pc = "waq"
    /\ waq_filtered' = waq_filter(waq_instantaneous, timeutc, target_hour, target_minute)
    /\ daily_averages' = groupby_agg(waq_filtered')
    /\ pc' = "summarized"
    /\ UNCHANGED << timeVars, waq_instantaneous, windowVars, csdVars, runVars, mainVars >>

NextWaq == SummarizeWaq

SpecWaq == InitWaq /\ [][NextWaq]_vars

\* The readings of calendar day d that the pipeline keeps, as positions of
\* the input table: at an S2 position and within 7.5 minutes (circular).
KeptOfDay(d) ==
    { k \in 1..Len(waq_instantaneous) :
        /\ waq_instantaneous[k].endDateTime.day = d
        /\ waq_instantaneous[k].horizontalPosition \in {"102", "110", "112", "132"}
        /\ CircularDistance(waq_instantaneous[k].endDateTime,
                            target_hour, target_minute) <= 450 }

RECURSIVE OxygenTotal(_)
OxygenTotal(K) ==
    IF K = {} THEN 0
    ELSE LET k == CHOOSE j \in K : TRUE
         IN  waq_instantaneous[k].dissolvedOxygen + OxygenTotal(K \ {k})

First(K) == CHOOSE k \in K : \A j \in K : k <= j

InputDays == { waq_instantaneous[k].endDateTime.day : k \in 1..Len(waq_instantaneous) }

\* C7: the output has exactly one row per calendar day with at least one
\* kept reading and no other row; the row's date is that day at the target
\* time; its numeric column is the arithmetic mean over exactly the kept
\* readings of that day and its metadata column is the first such reading's
\* value; a single kept reading is passed through unchanged.
C7_DailyAggregation ==
    pc = "summarized" =>
        /\ \A d \in InputDays :
              KeptOfDay(d) # {} <=>
                  \E k \in 1..Len(daily_averages) : daily_averages[k].date.day = d
        /\ \A k, j \in 1..Len(daily_averages) :
              daily_averages[k].date.day = daily_averages[j].date.day => k = j
        /\ \A k \in 1..Len(daily_averages) :
              LET row == daily_averages[k]
                  K == KeptOfDay(row.date.day)
              IN  /\ K # {}
                  /\ row.date = [day |-> row.date.day, hour |-> target_hour,
                                 minute |-> target_minute, second |-> 0]
                  /\ row.dissolvedOxygen.den = Cardinality(K)
                  /\ row.dissolvedOxygen.num = OxygenTotal(K)
                  /\ row.horizontalPosition =
                         waq_instantaneous[First(K)].horizontalPosition
                  /\ Cardinality(K) = 1 =>
                        /\ row.dissolvedOxygen.num
                             = waq_instantaneous[First(K)].dissolvedOxygen
                               * row.dissolvedOxygen.den

\* Two days with kept readings, one of them with two readings at different
\* positions and values, the other with a single reading.
C7_Witness ==
    /\ pc = "summarized"
    /\ Len(daily_averages) = 2
    /\ \E d \in InputDays :
          /\ Cardinality(KeptOfDay(d)) = 2
          /\ \E k, j \in KeptOfDay(d) :
                /\ waq_instantaneous[k].horizontalPosition
                     # waq_instantaneous[j].horizontalPosition
                /\ waq_instantaneous[k].dissolvedOxygen
                     # waq_instantaneous[j].dissolvedOxygen
    /\ \E d \in InputDays : Cardinality(KeptOfDay(d)) = 1

\* Elapsed seconds since the start of day 0.
AbsoluteSeconds(x) == x.day * 86400 + SecondsOfDay(x)

\* C10: every reading aggregated into a daily row lies within 7.5 minutes of
\* elapsed time of that row's date value, so two readings of one row are at
\* most 15 minutes apart.
C10_ContiguousWindow ==
    pc = "summarized" =>
        /\ \A k \in 1..Len(waq_filtered) :
              Abs(AbsoluteSeconds(waq_filtered[k].endDateTime)
                  - AbsoluteSeconds(waq_filtered[k].date)) <= 450
        /\ \A k, j \in 1..Len(waq_filtered) :
              waq_filtered[k].date = waq_filtered[j].date =>
                  Abs(AbsoluteSeconds(waq_filtered[k].endDateTime)
                      - AbsoluteSeconds(waq_filtered[j].endDateTime)) <= 900

-----------------------------------------------------------------------------
(* SpecScenario: the water-quality pipeline on four readings of one day at  *)
(* 15:53, 16:00, 16:08 and 16:20, target 16:00                             *)

ScenarioClocks ==
    << [hour |-> 15, minute |-> 53], [hour |-> 16, minute |-> 0],
       [hour |-> 16, minute |-> 8], [hour |-> 16, minute |-> 20] >>

ScenarioPositions == {"102", "132"}

ScenarioOxygen == {1, 2, 4}

InitScenario ==
    /\ timeutc = HHMM(16, 0)
    /\ target_hour = ParseHour(timeutc)
    /\ target_minute = ParseMinute(timeutc)
    /\ \E order \in Permutations(1..4), h \in [1..4 -> ScenarioPositions],
          v \in [1..4 -> ScenarioOxygen] :
          waq_instantaneous =
              [k \in 1..4 |->
                  [endDateTime |-> [day |-> 1,
                                    hour |-> ScenarioClocks[order[k]].hour,
                                    minute |-> ScenarioClocks[order[k]].minute,
                                    second |-> 0],
                   horizontalPosition |-> h[k],
                   dissolvedOxygen |-> v[k]]]
    /\ waq_filtered = << >>
    /\ daily_averages = << >>
    /\ WindowUnused
    /\ CsdUnused
    /\ RunUnused
    /\ MainUnused
    /\ pc = "waq"

SpecScenario == InitScenario /\ [][NextWaq]_vars

\* The value of the reading taken at hour:minute.
OxygenAt(hour, minute) ==
    LET k == CHOOSE j \in 1..Len(waq_instantaneous) :
                 /\ waq_instantaneous[j].endDateTime.hour = hour
                 /\ waq_instantaneous[j].endDateTime.minute = minute
    IN  waq_instantaneous[k].dissolvedOxygen

FilteredClocks ==
    { << waq_filtered[k].endDateTime.hour, waq_filtered[k].endDateTime.minute >> :
        k \in 1..Len(waq_filtered) }

\* C2 as stated: one row for the day, the 16:20 reading excluded, and the
\* numeric column the mean over the three readings at 15:53, 16:00 and 16:08.
C2_MeanOfThree ==
    pc = "summarized" =>
        /\ Len(daily_averages) = 1
        /\ << 16, 20 >> \notin FilteredClocks
        /\ daily_averages[1].dissolvedOxygen.num * 3
             = (OxygenAt(15, 53) + OxygenAt(16, 0) + OxygenAt(16, 8))
               * daily_averages[1].dissolvedOxygen.den

\* C2 amended: one row for the day, dated that day at 16:00; the readings at
\* 16:08 (8 minutes away) and 16:20 are excluded, and the numeric column is
\* the mean over the two readings at 15:53 and 16:00.
C2_MeanOfTwo ==
    pc = "summarized" =>
        /\ Len(daily_averages) = 1
        /\ daily_averages[1].date = [day |-> 1, hour |-> 16, minute |-> 0, second |-> 0]
        /\ FilteredClocks = { << 15, 53 >>, << 16, 0 >> }
        /\ Len(waq_filtered) = 2
        /\ daily_averages[1].dissolvedOxygen.den = 2
        /\ daily_averages[1].dissolvedOxygen.num = OxygenAt(15, 53) + OxygenAt(16, 0)

\* The scenario summarized, with values that tell the two means apart.
C2_Witness ==
    /\ pc = "summarized"
    /\ Len(daily_averages) = 1
    /\ OxygenAt(15, 53) = 1
    /\ OxygenAt(16, 0) = 2
    /\ OxygenAt(16, 8) = 4
    /\ daily_averages[1].dissolvedOxygen = [num |-> 3, den |-> 2]

-----------------------------------------------------------------------------
(* SpecCsd: the discharge filter on any small table, lines 58, 167-177 *)

CsdTargets == { HHMM(16, 0), HHMM(16, 15) }

CsdClocks ==
    { [hour |-> 15, minute |-> 59, second |-> 0],
      [hour |-> 16, minute |-> 0, second |-> 0],
      [hour |-> 16, minute |-> 0, second |-> 30],
      [hour |-> 16, minute |-> 15, second |-> 0],
      [hour |-> 4, minute |-> 0, second |-> 0] }

Discharge == {3, 7}

CsdRows ==
    { [endDateTime |-> [day |-> d, hour |-> c.hour, minute |-> c.minute,
                        second |-> c.second],
       maxpostDischarge |-> v] :
      d \in 1..MaxDay, c \in CsdClocks, v \in Discharge }

InitCsd ==
    /\ timeutc \in CsdTargets
    /\ target_hour = ParseHour(timeutc)
    /\ target_minute = ParseMinute(timeutc)
    /\ \E n \in 0..MaxRows : csd_15_min \in [1..n -> CsdRows]
    /\ csd_filtered = << >>
    /\ WindowUnused
    /\ WaqUnused
    /\ RunUnused
    /\ MainUnused
    /\ pc = "csd"

\* Lines 167-177 on the table of the bundle.
FilterCsd ==
    /\ pc = "csd"
    /\ csd_filtered' = csd_filter(csd_15_min, target_hour, target_minute)
    /\ pc' = "filtered"
    /\ UNCHANGED << timeVars, csd_15_min, windowVars, waqVars, runVars, mainVars >>

NextCsd == FilterCsd

SpecCsd == InitCsd /\ [][NextCsd]_vars

\* The positions of the input rows at the target hour and minute.
Matching ==
    { k \in 1..Len(csd_15_min) :
        /\ csd_15_min[k].endDateTime.hour = target_hour
        /\ csd_15_min[k].endDateTime.minute = target_minute }

\* The n-th smallest element of a set of numbers.
Nth(K, n) == CHOOSE k \in K : Cardinality({ j \in K : j < k }) = n - 1

\* C8: a discharge row is written if and only if the hour and the minute of
\* its timestamp equal the target's; the kept rows keep their values and
\* their relative order, and no row is added.
C8_ExactMatch ==
    pc = "filtered" =>
        /\ Len(csd_filtered) = Cardinality(Matching)
        /\ \A n \in 1..Len(csd_filtered) :
              csd_filtered[n] = csd_15_min[Nth(Matching, n)]

\* Target 16:00: a row at 15:59 is dropped between two kept rows at 16:00
\* that differ.
C8_Witness ==
    /\ pc = "filtered"
    /\ timeutc = HHMM(16, 0)
    /\ Len(csd_15_min) = 3
    /\ csd_15_min[2].endDateTime.hour = 15
    /\ csd_15_min[2].endDateTime.minute = 59
    /\ Len(csd_filtered) = 2
    /\ csd_filtered[1] # csd_filtered[2]
    /\ csd_filtered = << csd_15_min[1], csd_15_min[3] >>

-----------------------------------------------------------------------------
(* SpecCite: write_citation on any small bundle, lines 8-29 *)

key_citation_20288 ==
    << "c", "i", "t", "a", "t", "i", "o", "n", "_", "2", "0", "2", "8", "8",
       "_", "R", "E", "L", "E", "A", "S", "E", "-", "2", "0", "2", "6" >>

key_Citation_20288 ==
    << "C", "i", "t", "a", "t", "i", "o", "n", "_", "2", "0", "2", "8", "8",
       "_", "P", "R", "O", "V", "I", "S", "I", "O", "N", "A", "L" >>

key_citation_00130 ==
    << "c", "i", "t", "a", "t", "i", "o", "n", "_", "0", "0", "1", "3", "0",
       "_", "R", "E", "L", "E", "A", "S", "E", "-", "2", "0", "2", "6" >>

key_waq_instantaneous ==
    << "w", "a", "q", "_", "i", "n", "s", "t", "a", "n", "t", "a", "n", "e",
       "o", "u", "s" >>

key_csd_15_min ==
    << "c", "s", "d", "_", "1", "5", "_", "m", "i", "n" >>

key_readme_20288 ==
    << "r", "e", "a", "d", "m", "e", "_", "2", "0", "2", "8", "8" >>

product_20288 ==
    << "2", "0", "2", "8", "8" >>

product_00130 ==
    << "0", "0", "1", "3", "0" >>

site_LEWI ==
    << "L", "E", "W", "I" >>

site_COMO ==
    << "C", "O", "M", "O" >>

site_LECO ==
    << "L", "E", "C", "O" >>

site_MCRA ==
    << "M", "C", "R", "A" >>

MaxEntries == 3

CiteKeys ==
    { key_citation_20288, key_Citation_20288, key_citation_00130,
      key_waq_instantaneous, key_readme_20288 }

CiteValues == {"@misc{A}", "@misc{B}"}

\* The bundles of n entries: a dict holds a key once.
Bundles(n) ==
    { b \in [1..n -> [key : CiteKeys, value : CiteValues]] :
        \A k, j \in 1..n : b[k].key = b[j].key => k = j }

\* The directory before the call: empty, or holding an older citation file
\* of LEWI for either product.
CiteFiles ==
    { << >> } \cup
    { [n \in {citation_path(savepath, site_LEWI, p)} |->
          [complete |-> TRUE, body |-> << "@misc{old}" >>]] :
        p \in {product_20288, product_00130} }

InitCite ==
    /\ dpnum \in {product_20288, product_00130}
    /\ siteid \in {site_LEWI, site_COMO}
    /\ \E n \in 0..MaxEntries : data \in Bundles(n)
    /\ files \in CiteFiles
    /\ log = << >>
    /\ requests = << >>
    /\ exc = ""
    /\ timeutc = Unused
    /\ target_hour = Unused
    /\ target_minute = Unused
    /\ WindowUnused
    /\ WaqUnused
    /\ CsdUnused
    /\ MainUnused
    /\ pc = "cite"

\* Lines 27-29.
WriteCitation ==
    /\ pc = "cite"
    /\ files' = write_citation(files, dpnum, siteid, data, savepath)
    /\ pc' = "cited"
    /\ UNCHANGED << timeVars, windowVars, waqVars, csdVars, mainVars,
                    data, dpnum, siteid, log, requests, exc >>

NextCite == WriteCitation

SpecCite == InitCite /\ [][NextCite]_vars

\* The positions of the entries whose key, lower-cased, holds the text
\* "citation_" + dpnum at some offset.
CitationEntries ==
    LET pattern == citation_ \o dpnum
    IN  { k \in 1..Len(data) :
            \E off \in 0..(Len(data[k].key) - Len(pattern)) :
                \A c \in 1..Len(pattern) :
                    lower_char(data[k].key[off + c]) = pattern[c] }

\* C9: a call creates or overwrites exactly one file, named
\* {output_dir}{site_id}_citation_{product_id}.txt, and touches no other
\* file; the file holds the values of exactly the entries whose lower-cased
\* key contains "citation_" + product_id, in bundle order, and the empty
\* sequence when no key matches.
C9_OneCitationFile ==
    [][ pc = "cite" /\ pc' = "cited" =>
          LET name == savepath \o siteid \o underscore_citation_ \o dpnum \o dot_txt
          IN  /\ DOMAIN files' = DOMAIN files \cup {name}
              /\ \A n \in DOMAIN files : n # name => files'[n] = files[n]
              /\ files'[name].complete
              /\ Len(files'[name].body) = Cardinality(CitationEntries)
              /\ \A n \in 1..Len(files'[name].body) :
                    files'[name].body[n] = data[Nth(CitationEntries, n)].value
              /\ CitationEntries = {} => files'[name].body = << >> ]_vars

\* COMO's citation file for 20288 written beside LEWI's older one, from a
\* bundle whose first and third keys match (one of them capitalised).
C9_Witness ==
    /\ pc = "cited"
    /\ siteid = site_COMO
    /\ dpnum = product_20288
    /\ Len(data) = 3
    /\ data[1].key = key_Citation_20288
    /\ data[2].key = key_citation_00130
    /\ data[3].key = key_citation_20288
    /\ data[1].value # data[3].value
    /\ DOMAIN files = { citation_path(savepath, site_LEWI, product_20288),
                        citation_path(savepath, site_COMO, product_20288) }
    /\ files[citation_path(savepath, site_COMO, product_20288)].body
         = << data[1].value, data[3].value >>

-----------------------------------------------------------------------------
(* Spec: one call of neon_dwnld_sum_daily, lines 31-187.  Every statement   *)
(* of a try block that raises hands the exception to the block's handler.   *)

\* What nu.load_by_product may return: a dict of entries, or something else.
NotADict == [kind |-> "other", entries |-> << >>]

Dict(entries) == [kind |-> "dict", entries |-> entries]

isinstance_always(d) == TRUE

\* Lines 75, 158: isinstance(data, dict).
isinstance_dict(d) == d.kind = "dict"

\* data[key]: the entry's value; KeyError when the dict has no such key.
has_key(d, key) == \E k \in 1..Len(d.entries) : d.entries[k].key = key

get_item(d, key) ==
    d.entries[CHOOSE k \in 1..Len(d.entries) : d.entries[k].key = key].value

\* Lines 140, 183.
ErrorLine(e) == [text |-> "Error downloading data: ", arg |-> e]

\* Line 186.
SuccessLine ==
    [text |-> "Both data products successfully summarized and saved to savapath",
     arg |-> ""]

after_except_139_continue == "csd_download"

\* Line 141: return None.
after_except_139 == "return_141"

\* Line 184: return None.
after_except_182 == "return_184"

WaqRow(day, hour, minute, position, oxygen) ==
    [endDateTime |-> [day |-> day, hour |-> hour, minute |-> minute, second |-> 0],
     horizontalPosition |-> position,
     dissolvedOxygen |-> oxygen]

CsdRow(day, hour, minute, discharge) ==
    [endDateTime |-> [day |-> day, hour |-> hour, minute |-> minute, second |-> 0],
     maxpostDischarge |-> discharge]

\* The water-quality downloads of the model: a bundle with its citation and
\* a table, a bundle whose table is missing, and a value that is no dict.
WaqDownloads ==
    { Dict(<< [key |-> key_citation_20288, value |-> "@misc{A}"],
              [key |-> key_waq_instantaneous, value |-> t] >>) :
        t \in { << WaqRow(1, 16, 0, "102", 1), WaqRow(1, 16, 8, "102", 4),
                   WaqRow(2, 16, 0, "110", 4) >>,
                << WaqRow(1, 23, 58, "110", 4) >> } }
    \cup { Dict(<< [key |-> key_citation_20288, value |-> "@misc{A}"],
                   [key |-> key_readme_20288, value |-> "readme"] >>),
           NotADict }

CsdDownloads ==
    { Dict(<< [key |-> key_csd_15_min,
               value |-> << CsdRow(1, 15, 59, 3), CsdRow(1, 16, 0, 7) >>],
              [key |-> key_citation_00130, value |-> "@misc{B}"] >>),
      Dict(<< [key |-> key_citation_00130, value |-> "@misc{B}"] >>),
      NotADict }

\* timeutc as given by a caller: well formed, an hour %H rejects, no colon.
TimeInputs ==
    { HHMM(16, 0), HHMM(24, 0), << "1", "6", "0", "0" >> }

Init ==
    /\ timeutc \in TimeInputs
    /\ siteid \in {site_LECO, site_MCRA}
    /\ target_hour = 0
    /\ target_minute = 0
    /\ data = NotADict
    /\ dpnum = Unused
    /\ files = << >>
    /\ log = << >>
    /\ requests = << >>
    /\ exc = ""
    /\ waq_instantaneous = << >>
    /\ waq_filtered = << >>
    /\ daily_averages = << >>
    /\ csd_15_min = << >>
    /\ csd_filtered = << >>
    /\ WindowUnused
    /\ MainUnused
    /\ pc = "start"

tableVars == << waqVars, csdVars >>

\* Line 58, outside both try blocks: a ValueError reaches the caller.
ParseTimeutc ==
    /\ pc = "start"
    /\ IF ParseRaises(timeutc)
       THEN /\ exc' = "ValueError"
            /\ pc' = "raised"
            /\ UNCHANGED << target_hour, target_minute >>
       ELSE /\ target_hour' = ParseHour(timeutc)
            /\ target_minute' = ParseMinute(timeutc)
            /\ pc' = "waq_download"
            /\ UNCHANGED exc
    /\ UNCHANGED << timeutc, windowVars, tableVars, mainVars,
                    data, dpnum, siteid, files, log, requests >>

\* Lines 63-75: the request either raises or returns; a dict goes on to the
\* citation, anything else skips the product.
DownloadWaq ==
    /\ pc = "waq_download"
    /\ \/ /\ requests' = Append(requests, [dpid |-> "DP1.20288.001", result |-> "raised"])
          /\ exc' = "ConnectionError"
          /\ pc' = "except_139"
          /\ UNCHANGED data
       \/ \E d \in WaqDownloads :
             /\ requests' = Append(requests, [dpid |-> "DP1.20288.001", result |-> d.kind])
             /\ data' = d
             /\ pc' = IF isinstance_dict(d) THEN "waq_citation" ELSE "csd_download"
             /\ UNCHANGED exc
    /\ UNCHANGED << timeVars, windowVars, tableVars, mainVars, dpnum, siteid, files, log >>

\* Lines 78-81: write_citation returns, or open() raises, or the write
\* raises after open(); data.items() raises when data is no dict.
CiteWaq ==
    /\ pc = "waq_citation"
    /\ \/ IF data.kind = "dict"
          THEN /\ files' = write_citation(files, product_20288, siteid, data.entries, savepath)
               /\ pc' = "waq_table"
               /\ UNCHANGED exc
          ELSE /\ exc' = "AttributeError"
               /\ pc' = "except_139"
               /\ UNCHANGED files
       \/ /\ exc' = "OSError"
          /\ pc' = "except_139"
          /\ UNCHANGED files
       \/ /\ files' = truncate_file(files, citation_path(savepath, siteid, product_20288))
          /\ exc' = "OSError"
          /\ pc' = "except_139"
    /\ UNCHANGED << timeVars, windowVars, tableVars, mainVars, data, dpnum, siteid,
                    log, requests >>

\* Line 84: data["waq_instantaneous"].
TableWaq ==
    /\ pc = "waq_table"
    /\ IF has_key(data, key_waq_instantaneous)
       THEN /\ waq_instantaneous' = get_item(data, key_waq_instantaneous)
            /\ pc' = "waq_summarize"
            /\ UNCHANGED exc
       ELSE /\ exc' = "KeyError"
            /\ pc' = "except_139"
            /\ UNCHANGED waq_instantaneous
    /\ UNCHANGED << timeVars, windowVars, waq_filtered, daily_averages, csdVars,
                    mainVars, data, dpnum, siteid, files, log, requests >>

\* Lines 87-134: pd.to_datetime with the format raises on the first kept row
\* when timeutc does not fit '%H:%M'.
RunWaq ==
    /\ pc = "waq_summarize"
    /\ IF /\ window_filter(subset_s2(waq_instantaneous), target_hour, target_minute) # << >>
          /\ StrptimeRaises(timeutc)
       THEN /\ exc' = "ValueError"
            /\ pc' = "except_139"
            /\ UNCHANGED << waq_filtered, daily_averages >>
       ELSE /\ waq_filtered' = waq_filter(waq_instantaneous, timeutc,
                                          target_hour, target_minute)
            /\ daily_averages' = groupby_agg(waq_filtered')
            /\ pc' = "waq_csv"
            /\ UNCHANGED exc
    /\ UNCHANGED << timeVars, windowVars, waq_instantaneous, csdVars, mainVars,
                    data, dpnum, siteid, files, log, requests >>

\* Line 137: to_csv returns, or open() raises, or the write raises after it.
CsvWaq ==
    /\ pc = "waq_csv"
    /\ \/ /\ files' = write_file(files, daily_path(savepath, siteid, product_20288),
                                 daily_averages)
          /\ pc' = "csd_download"
          /\ UNCHANGED exc
       \/ /\ exc' = "OSError"
          /\ pc' = "except_139"
          /\ UNCHANGED files
       \/ /\ files' = truncate_file(files, daily_path(savepath, siteid, product_20288))
          /\ exc' = "OSError"
          /\ pc' = "except_139"
    /\ UNCHANGED << timeVars, windowVars, tableVars, mainVars, data, dpnum, siteid,
                    log, requests >>

\* Lines 139-141.
Except139 ==
    /\ pc = "except_139"
    /\ log' = Append(log, ErrorLine(exc))
    /\ exc' = ""
    /\ pc' = after_except_139
    /\ UNCHANGED << timeVars, windowVars, tableVars, mainVars, data, dpnum, siteid,
                    files, requests >>

\* Lines 146-158.
DownloadCsd ==
    /\ pc = "csd_download"
    /\ \/ /\ requests' = Append(requests, [dpid |-> "DP4.00130.001", result |-> "raised"])
          /\ exc' = "ConnectionError"
          /\ pc' = "except_182"
          /\ UNCHANGED data
       \/ \E d \in CsdDownloads :
             /\ requests' = Append(requests, [dpid |-> "DP4.00130.001", result |-> d.kind])
             /\ data' = d
             /\ pc' = IF isinstance_dict(d) THEN "csd_citation" ELSE "success"
             /\ UNCHANGED exc
    /\ UNCHANGED << timeVars, windowVars, tableVars, mainVars, dpnum, siteid, files, log >>

\* Lines 161-164.
CiteCsd ==
    /\ pc = "csd_citation"
    /\ \/ IF data.kind = "dict"
          THEN /\ files' = write_citation(files, product_00130, siteid, data.entries, savepath)
               /\ pc' = "csd_table"
               /\ UNCHANGED exc
          ELSE /\ exc' = "AttributeError"
               /\ pc' = "except_182"
               /\ UNCHANGED files
       \/ /\ exc' = "OSError"
          /\ pc' = "except_182"
          /\ UNCHANGED files
       \/ /\ files' = truncate_file(files, citation_path(savepath, siteid, product_00130))
          /\ exc' = "OSError"
          /\ pc' = "except_182"
    /\ UNCHANGED << timeVars, windowVars, tableVars, mainVars, data, dpnum, siteid,
                    log, requests >>

\* Lines 167-177: data["csd_15_min"] and the exact-match filter.
TableCsd ==
    /\ pc = "csd_table"
    /\ IF has_key(data, key_csd_15_min)
       THEN /\ csd_15_min' = get_item(data, key_csd_15_min)
            /\ csd_filtered' = csd_filter(csd_15_min', target_hour, target_minute)
            /\ pc' = "csd_csv"
            /\ UNCHANGED exc
       ELSE /\ exc' = "KeyError"
            /\ pc' = "except_182"
            /\ UNCHANGED csdVars
    /\ UNCHANGED << timeVars, windowVars, waqVars, mainVars, data, dpnum, siteid,
                    files, log, requests >>

\* Line 180.
CsvCsd ==
    /\ pc = "csd_csv"
    /\ \/ /\ files' = write_file(files, daily_path(savepath, siteid, product_00130),
                                 csd_filtered)
          /\ pc' = "success"
          /\ UNCHANGED exc
       \/ /\ exc' = "OSError"
          /\ pc' = "except_182"
          /\ UNCHANGED files
       \/ /\ files' = truncate_file(files, daily_path(savepath, siteid, product_00130))
          /\ exc' = "OSError"
          /\ pc' = "except_182"
    /\ UNCHANGED << timeVars, windowVars, tableVars, mainVars, data, dpnum, siteid,
                    log, requests >>

\* Lines 182-184.
Except182 ==
    /\ pc = "except_182"
    /\ log' = Append(log, ErrorLine(exc))
    /\ exc' = ""
    /\ pc' = after_except_182
    /\ UNCHANGED << timeVars, windowVars, tableVars, mainVars, data, dpnum, siteid,
                    files, requests >>

\* Lines 186-187.
Success ==
    /\ pc = "success"
    /\ log' = Append(log, SuccessLine)
    /\ pc' = "return_187"
    /\ UNCHANGED << timeVars, windowVars, tableVars, mainVars, data, dpnum, siteid,
                    files, requests, exc >>

Next ==
    \/ ParseTimeutc
    \/ DownloadWaq
    \/ CiteWaq
    \/ TableWaq
    \/ RunWaq
    \/ CsvWaq
    \/ Except139
    \/ DownloadCsd
    \/ CiteCsd
    \/ TableCsd
    \/ CsvCsd
    \/ Except182
    \/ Success

Spec == Init /\ [][Next]_vars

\* The output files of the call, named as the spec names them.
WaqCitationFile == savepath \o siteid \o underscore_citation_ \o product_20288 \o dot_txt

WaqCsvFile == savepath \o siteid \o underscore_daily_ \o product_20288 \o dot_csv

CsdCitationFile == savepath \o siteid \o underscore_citation_ \o product_00130 \o dot_txt

CsdCsvFile == savepath \o siteid \o underscore_daily_ \o product_00130 \o dot_csv

WaqSteps == {"waq_download", "waq_citation", "waq_table", "waq_summarize", "waq_csv"}

CsdSteps == {"csd_download", "csd_citation", "csd_table", "csd_csv"}

DischargeRequested ==
    \E k \in 1..Len(requests) : requests[k].dpid = "DP4.00130.001"

ErrorLines == { k \in 1..Len(log) : log[k].text = "Error downloading data: " }

\* C4: an exception raised during the water-quality pipeline is caught, an
\* error line holding its text is logged and the function returns at once:
\* the discharge product is never requested, no discharge citation or CSV is
\* written, and no exception reaches the caller.
C4_WaqFailureBoundary ==
    /\ [](pc \in {"except_139", "return_141"} =>
             /\ ~DischargeRequested
             /\ {CsdCitationFile, CsdCsvFile} \cap DOMAIN files = {})
    /\ [][ /\ (pc \in WaqSteps /\ exc' # "") => pc' = "except_139"
           /\ pc = "except_139" =>
                 /\ exc # ""
                 /\ log' = Append(log, [text |-> "Error downloading data: ",
                                        arg |-> exc])
                 /\ pc' = "return_141"
                 /\ files' = files
                 /\ requests' = requests
           /\ pc = "return_141" => FALSE
           /\ pc' = "raised" => pc = "start" ]_vars

\* The table is missing from the bundle: the KeyError is logged and the call
\* has returned after its single request.
C4_Witness ==
    /\ pc = "return_141"
    /\ log = << [text |-> "Error downloading data: ", arg |-> "KeyError"] >>
    /\ Len(requests) = 1
    /\ requests[1].dpid = "DP1.20288.001"

\* A file counts as written once a write of it has returned.
Written(name) == name \in DOMAIN files /\ files[name].complete

\* C5 as stated: a pipeline that fails with an exception has written neither
\* the citation file nor the daily CSV of its site and product.
C5_NoFileOnFailure ==
    /\ pc \in {"except_139", "return_141"} =>
          ~Written(WaqCitationFile) /\ ~Written(WaqCsvFile)
    /\ pc \in {"except_182", "return_184"} =>
          ~Written(CsdCitationFile) /\ ~Written(CsdCsvFile)

\* What a failing step of one pipeline leaves behind, given the step that
\* raised, the citation file cit and the daily CSV csv of the product.
LeftBehind(step, fs, cit, csv) ==
    /\ csv \in DOMAIN fs => ~fs[csv].complete
    /\ csv \in DOMAIN fs => step \in {"waq_csv", "csd_csv"}
    /\ step \in {"waq_download", "csd_download"} => cit \notin DOMAIN fs
    /\ step \in {"waq_citation", "csd_citation"} =>
          (cit \in DOMAIN fs => ~fs[cit].complete)
    /\ step \in {"waq_table", "waq_summarize", "waq_csv", "csd_table", "csd_csv"} =>
          cit \in DOMAIN fs /\ fs[cit].complete

\* C5 amended: a pipeline that fails with an exception never leaves a
\* completely written daily CSV; its citation file is absent when the
\* download raised, at most truncated when the Citation Writer raised, and
\* written in full when the exception came later (table extraction,
\* filtering, aggregation, CSV write); the handler writes no file.
C5_CitationMayRemain ==
    [][ /\ pc' = "except_139" =>
              LeftBehind(pc, files', WaqCitationFile, WaqCsvFile)
        /\ pc' = "except_182" =>
              LeftBehind(pc, files', CsdCitationFile, CsdCsvFile)
        /\ pc \in {"except_139", "except_182"} => files' = files ]_vars

\* The water-quality table is missing: the call has returned with the error
\* logged, the citation file written in full and no CSV.
C5_Witness ==
    /\ pc = "return_141"
    /\ Len(log) = 1
    /\ log[1].arg = "KeyError"
    /\ WaqCitationFile \in DOMAIN files
    /\ files[WaqCitationFile] = [complete |-> TRUE, body |-> << "@misc{A}" >>]
    /\ WaqCsvFile \notin DOMAIN files

\* C6: a download that returns a value that is no mapping is skipped in
\* silence: no citation file and no CSV is written for the product, no error
\* is logged for it, and the call goes on; after such a water-quality result
\* the discharge product is still requested and processed.
C6_NonMappingSkipped ==
    /\ (Len(requests) >= 1 /\ requests[1].result = "other") =>
          /\ {WaqCitationFile, WaqCsvFile} \cap DOMAIN files = {}
          /\ pc \in CsdSteps \cup {"except_182", "return_184", "success", "return_187"}
          /\ pc # "csd_download" => Len(requests) = 2
          /\ ErrorLines # {} => pc = "return_184" /\ requests[2].result # "other"
          /\ (pc = "return_187" /\ requests[2].result = "dict") =>
                /\ CsdCitationFile \in DOMAIN files
                /\ CsdCsvFile \in DOMAIN files
                /\ files[CsdCsvFile].complete
    /\ (Len(requests) >= 2 /\ requests[2].result = "other") =>
          /\ {CsdCitationFile, CsdCsvFile} \cap DOMAIN files = {}
          /\ pc \in {"success", "return_187"}
          /\ ErrorLines = {}

\* No water-quality bundle, a discharge bundle: the call ends on the success
\* line with the discharge files written and nothing for water quality.
C6_Witness ==
    /\ pc = "return_187"
    /\ Len(requests) = 2
    /\ requests[1].result = "other"
    /\ requests[2].result = "dict"
    /\ DOMAIN files = {CsdCitationFile, CsdCsvFile}
    /\ files[CsdCsvFile].body = << CsdRow(1, 16, 0, 7) >>
    /\ log = << SuccessLine >>

-----------------------------------------------------------------------------
(* SpecMain: main, lines 189-217.  The call of neon_dwnld_sum_daily is one  *)
(* step that prints what the Summarizer prints and then returns or raises.  *)

\* Lines 194-199, in the dict's order.
site_inputs ==
    << [siteid |-> site_LEWI, startmonth |-> "2023-10", endmonth |-> "2024-09",
        timeutc |-> HHMM(16, 0)],
       [siteid |-> site_COMO, startmonth |-> "2023-10", endmonth |-> "2024-09",
        timeutc |-> HHMM(18, 0)],
       [siteid |-> site_LECO, startmonth |-> "2023-10", endmonth |-> "2024-09",
        timeutc |-> HHMM(16, 0)],
       [siteid |-> site_MCRA, startmonth |-> "2023-10", endmonth |-> "2024-09",
        timeutc |-> HHMM(19, 0)] >>

\* Line 204.
ProcessingLine(k) ==
    [text |-> "Processing site ", arg |-> site_inputs[k].siteid]

\* Line 214.
SiteErrorLine(k, e) ==
    [text |-> "Error processing site ", arg |-> << site_inputs[k].siteid, e >>]

\* Line 216.
AllSitesLine == [text |-> "All sites processed successfully", arg |-> ""]

after_except_213_break == "finish"

\* Lines 213-214: the handler ends the iteration; the loop goes on.
after_except_213 == "loop"

\* The exceptions a call of the Summarizer may raise.
SummarizerErrors == {"ValueError", "OSError"}

InitMain ==
    /\ idx = 0
    /\ calls = << >>
    /\ log = << >>
    /\ exc = ""
    /\ siteid = Unused
    /\ data = Unused
    /\ dpnum = Unused
    /\ files = Unused
    /\ requests = Unused
    /\ timeutc = Unused
    /\ target_hour = Unused
    /\ target_minute = Unused
    /\ WindowUnused
    /\ WaqUnused
    /\ CsdUnused
    /\ pc = "loop"

mainFrame ==
    << timeVars, windowVars, tableVars, data, dpnum, siteid, files, requests >>

\* Lines 202-204: the next entry of the table, if any.
LoopNext ==
    /\ pc = "loop"
    /\ idx < Len(site_inputs)
    /\ idx' = idx + 1
    /\ log' = Append(log, ProcessingLine(idx'))
    /\ pc' = "call"
    /\ UNCHANGED << mainFrame, calls, exc >>

\* Lines 205-211: the call returns after its success line or after the error
\* line of one of its handlers, or raises.
CallSummarizer ==
    /\ pc = "call"
    /\ calls' = Append(calls, site_inputs[idx].siteid)
    /\ \/ /\ log' = Append(log, SuccessLine)
          /\ pc' = "loop"
          /\ UNCHANGED exc
       \/ /\ log' = Append(log, ErrorLine("KeyError"))
          /\ pc' = "loop"
          /\ UNCHANGED exc
       \/ \E e \in SummarizerErrors :
             /\ exc' = e
             /\ pc' = "except_213"
             /\ UNCHANGED log
    /\ UNCHANGED << mainFrame, idx >>

\* Lines 213-214.
Except213 ==
    /\ pc = "except_213"
    /\ log' = Append(log, SiteErrorLine(idx, exc))
    /\ exc' = ""
    /\ pc' = after_except_213
    /\ UNCHANGED << mainFrame, idx, calls >>

\* The for loop is exhausted.
LoopEnd ==
    /\ pc = "loop"
    /\ idx = Len(site_inputs)
    /\ pc' = "finish"
    /\ UNCHANGED << mainFrame, idx, calls, log, exc >>

\* Lines 216-217.
Finish ==
    /\ pc = "finish"
    /\ log' = Append(log, AllSitesLine)
    /\ pc' = "returned"
    /\ UNCHANGED << mainFrame, idx, calls, exc >>

NextMain ==
    \/ LoopNext
    \/ CallSummarizer
    \/ Except213
    \/ LoopEnd
    \/ Finish

SpecMain == InitMain /\ [][NextMain]_vars

SiteOrder == << site_LEWI, site_COMO, site_LECO, site_MCRA >>

CompletionLines ==
    { k \in 1..Len(log) : log[k].text = "All sites processed successfully" }

\* C3: whatever the Summarizer raises, every site of the table is passed to
\* it exactly once and in the table's order; an exception for a site is
\* caught and logged and the next site is processed; the completion message
\* is logged exactly once, after the last site has been attempted.
C3_DriverIsolation ==
    /\ [](/\ Len(calls) <= Len(SiteOrder)
          /\ calls = SubSeq(SiteOrder, 1, Len(calls))
          /\ CompletionLines = IF pc = "returned" THEN {Len(log)} ELSE {}
          /\ pc \in {"finish", "returned"} => calls = SiteOrder
          /\ pc # "returned" => ENABLED NextMain)
    /\ [][ pc = "except_213" =>
              /\ log' = Append(log, [text |-> "Error processing site ",
                                     arg |-> << SiteOrder[Len(calls)], exc >>])
              /\ calls' = calls
              /\ idx' = idx
              /\ pc' = "loop" ]_vars

\* main has returned after the Summarizer raised for LEWI and for LECO.
C3_Witness ==
    /\ pc = "returned"
    /\ calls = SiteOrder
    /\ \E k, j \in 1..Len(log) :
          /\ log[k] = [text |-> "Error processing site ",
                       arg |-> << site_LEWI, "ValueError" >>]
          /\ log[j] = [text |-> "Error processing site ",
                       arg |-> << site_LECO, "OSError" >>]

====
